---- MODULE Spec2Model ----
(***************************************************************************)
(* Model of split-config.js.py: a script that reads a JavaScript file,     *)
(* extracts the single-line function declarations with a regular           *)
(* expression, sorts them into ten named categories by keywords of the     *)
(* lowercased name, and prints a report.                                   *)
(*                                                                         *)
(* Text is modelled character by character: a Python str is a tuple of     *)
(* one-character strings, so that the regular expression, split, strip,    *)
(* lower, upper and the `in` substring test are computed as Python         *)
(* computes them.                                                          *)
(***************************************************************************)
EXTENDS Integers, Sequences, FiniteSets, TLC

(***************************************************************************)
(* Bounds of the model.                                                    *)
(***************************************************************************)
\* largest number of physical lines of a file of LinePool lines
MaxLines == 2

(***************************************************************************)
(* Character classes and str methods.                                      *)
(***************************************************************************)
Range(s) == {s[n] : n \in DOMAIN s}

LowerLetters == <<"a", "b", "c", "d", "e", "f", "g", "h", "i", "j", "k", "l", "m", "n", "o", "p", "q", "r", "s", "t", "u", "v", "w", "x", "y", "z">>

UpperLetters == <<"A", "B", "C", "D", "E", "F", "G", "H", "I", "J", "K", "L", "M", "N", "O", "P", "Q", "R", "S", "T", "U", "V", "W", "X", "Y", "Z">>

Digits == {"0", "1", "2", "3", "4", "5", "6", "7", "8", "9"}

\* \s of the pattern and the characters str.strip() removes
\* (the ASCII ones that a TLA+ string can denote)
Whitespace == {" ", "\t", "\n", "\r", "\f"}

\* [a-zA-Z_]
IdentStart == Range(LowerLetters) \cup Range(UpperLetters) \cup {"_"}

\* [a-zA-Z0-9_]
IdentChar == IdentStart \cup Digits

IndexIn(alphabet, ch) == CHOOSE n \in DOMAIN alphabet : alphabet[n] = ch

\* str.lower() on the characters an identifier can hold
lower(s) ==
    [n \in DOMAIN s |->
        IF s[n] \in Range(UpperLetters)
        THEN LowerLetters[IndexIn(UpperLetters, s[n])]
        ELSE s[n]]

\* str.upper()
upper(s) ==
    [n \in DOMAIN s |->
        IF s[n] \in Range(LowerLetters)
        THEN UpperLetters[IndexIn(LowerLetters, s[n])]
        ELSE s[n]]

\* str.strip()
strip(s) ==
    LET keep == {n \in DOMAIN s : s[n] \notin Whitespace}
    IN  IF keep = {} THEN <<>>
        ELSE SubSeq(s, CHOOSE a \in keep : \A b \in keep : a <= b,
                       CHOOSE a \in keep : \A b \in keep : a >= b)

\* str.split(sep) for a one-character separator: always at least one piece
RECURSIVE split(_, _)
split(s, sep) ==
    LET at == {n \in DOMAIN s : s[n] = sep}
    IN  IF at = {} THEN <<s>>
        ELSE LET first == CHOOSE a \in at : \A b \in at : a <= b
             IN  <<SubSeq(s, 1, first - 1)>>
                     \o split(SubSeq(s, first + 1, Len(s)), sep)

\* sep.join(texts): the contents of a file whose physical lines are texts
RECURSIVE join(_, _)
join(texts, sep) ==
    IF Len(texts) = 0 THEN <<>>
    ELSE IF Len(texts) = 1 THEN texts[1]
    ELSE texts[1] \o sep \o join(Tail(texts), sep)

\* `x in name` for two strings
Contains(name, x) ==
    \E n \in 1..(Len(name) - Len(x) + 1) : SubSeq(name, n, n + Len(x) - 1) = x

\* any(x in name for x in keys)
any_in(keys, name) == \E n \in DOMAIN keys : Contains(name, keys[n])

\* re.match(function_pattern, line), with function_pattern
\*   ^\s*(async\s+)?function\s+([a-zA-Z_][a-zA-Z0-9_]*)\s*\([^)]*\)\s*\{
\* Every quantifier of the pattern is followed by an element that cannot
\* match a character the quantifier consumes, so the greedy scan below
\* finds the match whenever backtracking would.

\* position after the longest run of characters of class starting at p
RECURSIVE SkipClass(_, _, _)
SkipClass(s, p, class) ==
    IF p <= Len(s) /\ s[p] \in class THEN SkipClass(s, p + 1, class) ELSE p

\* position after the longest run of characters other than ch starting at p
RECURSIVE SkipNot(_, _, _)
SkipNot(s, p, ch) ==
    IF p <= Len(s) /\ s[p] # ch THEN SkipNot(s, p + 1, ch) ELSE p

\* the literal lit stands at position p of s
LitAt(s, p, lit) ==
    /\ p + Len(lit) - 1 <= Len(s)
    /\ SubSeq(s, p, p + Len(lit) - 1) = lit

CharAt(s, p, class) == p <= Len(s) /\ s[p] \in class

NoMatch == [ok |-> FALSE, group1 |-> FALSE, group2 |-> <<>>]

\* re_match with .* in place of [^)]*: the parameter text runs up to the last
\* ")" of the line that whitespace and "{" follow
re_match_any_params(line) ==
    LET p0 == SkipClass(line, 1, Whitespace)
        q0 == p0 + 5
        q1 == SkipClass(line, q0, Whitespace)
        marker == LitAt(line, p0, <<"a", "s", "y", "n", "c">>) /\ q1 > q0
        p1 == IF marker THEN q1 ELSE p0
        p2 == p1 + 8
        p3 == SkipClass(line, p2, Whitespace)
        p4 == SkipClass(line, p3 + 1, IdentChar)
        p5 == SkipClass(line, p4, Whitespace)
        closing == {p \in (p5 + 1)..Len(line) :
                       /\ line[p] = ")"
                       /\ CharAt(line, SkipClass(line, p + 1, Whitespace), {"{"})}
    IN  IF /\ LitAt(line, p1, <<"f", "u", "n", "c", "t", "i", "o", "n">>)
           /\ p3 > p2
           /\ CharAt(line, p3, IdentStart)
           /\ CharAt(line, p5, {"("})
           /\ closing # {}
        THEN [ok |-> TRUE, group1 |-> marker, group2 |-> SubSeq(line, p3, p4 - 1)]
        ELSE NoMatch

\* ok: the pattern matches a prefix of line; group1: (async\s+) took part;
\* group2: the identifier
re_match(line) ==
    LET p0 == SkipClass(line, 1, Whitespace)
        q0 == p0 + 5
        q1 == SkipClass(line, q0, Whitespace)
        marker == LitAt(line, p0, <<"a", "s", "y", "n", "c">>) /\ q1 > q0
        p1 == IF marker THEN q1 ELSE p0
        p2 == p1 + 8
        p3 == SkipClass(line, p2, Whitespace)
        p4 == SkipClass(line, p3 + 1, IdentChar)
        p5 == SkipClass(line, p4, Whitespace)
        p6 == SkipNot(line, p5 + 1, ")")
        p7 == SkipClass(line, p6 + 1, Whitespace)
    IN  IF /\ LitAt(line, p1, <<"f", "u", "n", "c", "t", "i", "o", "n">>)
           /\ p3 > p2
           /\ CharAt(line, p3, IdentStart)
           /\ CharAt(line, p5, {"("})
           /\ CharAt(line, p6, {")"})
           /\ CharAt(line, p7, {"{"})
        THEN [ok |-> TRUE, group1 |-> marker, group2 |-> SubSeq(line, p3, p4 - 1)]
        ELSE NoMatch

(***************************************************************************)
(* The categorisation of one function (the if/elif chain).                 *)
(***************************************************************************)
\* the chain with the api branch moved before the playlists branch
category_of_api_early(func) ==
    LET name == lower(func.name)
    IN  IF any_in(<<<<"f", "o", "r", "m", "a", "t">>, <<"g", "e", "n", "e", "r", "a", "t", "e">>, <<"e", "s", "c", "a", "p", "e">>, <<"c", "o", "n", "v", "e", "r", "t">>>>, name)
        THEN <<"f", "o", "r", "m", "a", "t", "t", "e", "r", "s">>
        ELSE IF Contains(name, <<"s", "c", "h", "e", "d", "u", "l", "e">>)
        THEN <<"s", "c", "h", "e", "d", "u", "l", "e", "s">>
        ELSE IF Contains(name, <<"s", "o", "r", "t">>)
        THEN <<"s", "o", "r", "t", "s">>
        ELSE IF any_in(<<<<"r", "u", "l", "e">>, <<"f", "i", "e", "l", "d">>, <<"o", "p", "e", "r", "a", "t", "o", "r">>, <<"v", "a", "l", "u", "e">>,
                         <<"i", "n", "p", "u", "t">>>>, name)
        THEN <<"r", "u", "l", "e", "s">>
        ELSE IF any_in(<<<<"a", "p", "i">>, <<"l", "o", "a", "d">>, <<"g", "e", "t">>, <<"p", "o", "s", "t">>, <<"p", "u", "t">>,
                         <<"f", "e", "t", "c", "h">>>>, name)
        THEN <<"a", "p", "i">>
        ELSE IF any_in(<<<<"p", "l", "a", "y", "l", "i", "s", "t">>, <<"c", "r", "e", "a", "t", "e">>, <<"e", "d", "i", "t">>, <<"c", "l", "o", "n", "e">>,
                         <<"d", "e", "l", "e", "t", "e">>, <<"r", "e", "f", "r", "e", "s", "h">>, <<"e", "n", "a", "b", "l", "e">>, <<"d", "i", "s", "a", "b", "l", "e">>>>, name)
        THEN <<"p", "l", "a", "y", "l", "i", "s", "t", "s">>
        ELSE IF any_in(<<<<"f", "i", "l", "t", "e", "r">>, <<"s", "e", "a", "r", "c", "h">>, <<"a", "p", "p", "l", "y">>>>, name)
        THEN <<"f", "i", "l", "t", "e", "r", "s">>
        ELSE IF Contains(name, <<"b", "u", "l", "k">>)
        THEN <<"b", "u", "l", "k", "_", "a", "c", "t", "i", "o", "n", "s">>
        ELSE IF any_in(<<<<"i", "n", "i", "t">>, <<"s", "e", "t", "u", "p">>, <<"e", "v", "e", "n", "t">>>>, name)
        THEN <<"i", "n", "i", "t">>
        ELSE <<"c", "o", "r", "e">>

\* the key of the list that the chain appends func to
category_of(func) ==
    LET name == lower(func.name)
    IN  IF any_in(<<<<"f", "o", "r", "m", "a", "t">>, <<"g", "e", "n", "e", "r", "a", "t", "e">>, <<"e", "s", "c", "a", "p", "e">>, <<"c", "o", "n", "v", "e", "r", "t">>>>, name)
        THEN <<"f", "o", "r", "m", "a", "t", "t", "e", "r", "s">>
        ELSE IF Contains(name, <<"s", "c", "h", "e", "d", "u", "l", "e">>)
        THEN <<"s", "c", "h", "e", "d", "u", "l", "e", "s">>
        ELSE IF Contains(name, <<"s", "o", "r", "t">>)
        THEN <<"s", "o", "r", "t", "s">>
        ELSE IF any_in(<<<<"r", "u", "l", "e">>, <<"f", "i", "e", "l", "d">>, <<"o", "p", "e", "r", "a", "t", "o", "r">>, <<"v", "a", "l", "u", "e">>,
                         <<"i", "n", "p", "u", "t">>>>, name)
        THEN <<"r", "u", "l", "e", "s">>
        ELSE IF any_in(<<<<"p", "l", "a", "y", "l", "i", "s", "t">>, <<"c", "r", "e", "a", "t", "e">>, <<"e", "d", "i", "t">>, <<"c", "l", "o", "n", "e">>,
                         <<"d", "e", "l", "e", "t", "e">>, <<"r", "e", "f", "r", "e", "s", "h">>, <<"e", "n", "a", "b", "l", "e">>, <<"d", "i", "s", "a", "b", "l", "e">>>>, name)
        THEN <<"p", "l", "a", "y", "l", "i", "s", "t", "s">>
        ELSE IF any_in(<<<<"f", "i", "l", "t", "e", "r">>, <<"s", "e", "a", "r", "c", "h">>, <<"a", "p", "p", "l", "y">>>>, name)
        THEN <<"f", "i", "l", "t", "e", "r", "s">>
        ELSE IF Contains(name, <<"b", "u", "l", "k">>)
        THEN <<"b", "u", "l", "k", "_", "a", "c", "t", "i", "o", "n", "s">>
        ELSE IF any_in(<<<<"a", "p", "i">>, <<"l", "o", "a", "d">>, <<"g", "e", "t">>, <<"p", "o", "s", "t">>, <<"p", "u", "t">>,
                         <<"f", "e", "t", "c", "h">>>>, name)
        THEN <<"a", "p", "i">>
        ELSE IF any_in(<<<<"i", "n", "i", "t">>, <<"s", "e", "t", "u", "p">>, <<"e", "v", "e", "n", "t">>>>, name)
        THEN <<"i", "n", "i", "t">>
        ELSE <<"c", "o", "r", "e">>

\* the dict literal with its keys in alphabetical order
AlphabeticalCategories ==
    [n \in 1..10 |->
        [key |-> <<<<"a", "p", "i">>, <<"b", "u", "l", "k", "_", "a", "c", "t", "i", "o", "n", "s">>, <<"c", "o", "r", "e">>, <<"f", "i", "l", "t", "e", "r", "s">>,
                   <<"f", "o", "r", "m", "a", "t", "t", "e", "r", "s">>, <<"i", "n", "i", "t">>, <<"p", "l", "a", "y", "l", "i", "s", "t", "s">>, <<"r", "u", "l", "e", "s">>,
                   <<"s", "c", "h", "e", "d", "u", "l", "e", "s">>, <<"s", "o", "r", "t", "s">>>>[n],
         funcs |-> <<>>]]

\* the dict literal: keys in insertion order, every list empty
EmptyCategories ==
    [n \in 1..10 |->
        [key |-> <<<<"c", "o", "r", "e">>, <<"f", "o", "r", "m", "a", "t", "t", "e", "r", "s">>, <<"s", "c", "h", "e", "d", "u", "l", "e", "s">>, <<"s", "o", "r", "t", "s">>,
                   <<"r", "u", "l", "e", "s">>, <<"p", "l", "a", "y", "l", "i", "s", "t", "s">>, <<"f", "i", "l", "t", "e", "r", "s">>, <<"b", "u", "l", "k", "_", "a", "c", "t", "i", "o", "n", "s">>,
                   <<"a", "p", "i">>, <<"i", "n", "i", "t">>>>[n],
         funcs |-> <<>>]]

\* categories[key].insert(0, func)
insert_first(cats, key, func) ==
    [n \in DOMAIN cats |->
        IF cats[n].key = key
        THEN [cats[n] EXCEPT !.funcs = <<func>> \o @]
        ELSE cats[n]]

\* categories[key].append(func)
append_to(cats, key, func) ==
    [n \in DOMAIN cats |->
        IF cats[n].key = key
        THEN [cats[n] EXCEPT !.funcs = Append(@, func)]
        ELSE cats[n]]

\* the iteration when the final else is lost and core gets every function
categorize_core_always(cats, func) ==
    append_to(append_to(cats, category_of(func), func), <<"c", "o", "r", "e">>, func)

\* the iteration when an async function goes to api whatever its name
categorize_async_as_api(cats, func) ==
    append_to(cats, IF func.async THEN <<"a", "p", "i">> ELSE category_of(func), func)

\* one iteration of `for func in functions`
categorize(cats, func) == append_to(cats, category_of(func), func)

\* the iteration with enumerate(lines), which counts from 0
extract_from_zero(funcs, all_lines, n) ==
    LET line == all_lines[n]
        match == re_match(line)
    IN  IF match.ok
        THEN Append(funcs, [name |-> match.group2,
                            line |-> n - 1,
                            async |-> match.group1,
                            line_content |-> strip(line)])
        ELSE funcs

\* the iteration when the pattern is tried on the rest of the content
\* rather than on the line alone
extract_across_lines(funcs, all_lines, n) ==
    LET line == all_lines[n]
        match == re_match(join(SubSeq(all_lines, n, Len(all_lines)), <<"\n">>))
    IN  IF match.ok
        THEN Append(funcs, [name |-> match.group2,
                            line |-> n,
                            async |-> match.group1,
                            line_content |-> strip(line)])
        ELSE funcs

\* one iteration of `for i, line in enumerate(lines, 1)`
extract(funcs, all_lines, n) ==
    LET line == all_lines[n]
        match == re_match(line)
    IN  IF match.ok
        THEN Append(funcs, [name |-> match.group2,
                            line |-> n,
                            async |-> match.group1,
                            line_content |-> strip(line)])
        ELSE funcs

(***************************************************************************)
(* What print_analysis writes: one entry per print call.                   *)
(***************************************************************************)
Printed(kind, text, n, async) ==
    [kind |-> kind, text |-> text, n |-> n, async |-> async]

\* the three banner prints and the total line
banner(funcs) ==
    << Printed("rule", <<"=">>, 80, FALSE),
       Printed("title", <<"F", "U", "N", "C", "T", "I", "O", "N", " ", "A", "N", "A", "L", "Y", "S", "I", "S">>, 0, FALSE),
       Printed("rule", <<"=">>, 80, FALSE),
       Printed("total", <<"T", "o", "t", "a", "l", " ", "f", "u", "n", "c", "t", "i", "o", "n", "s", " ", "f", "o", "u", "n", "d">>, Len(funcs), FALSE) >>

\* the iteration without `if funcs`
section_unguarded(entry) ==
    <<Printed("header", upper(entry.key), Len(entry.funcs), FALSE)>>
        \o [n \in DOMAIN entry.funcs |->
               Printed("func", entry.funcs[n].name, entry.funcs[n].line,
                       entry.funcs[n].async)]

\* one iteration of `for category, funcs in categories.items()`
section(entry) ==
    IF entry.funcs # <<>>
    THEN <<Printed("header", upper(entry.key), Len(entry.funcs), FALSE)>>
         \o [n \in DOMAIN entry.funcs |->
                Printed("func", entry.funcs[n].name, entry.funcs[n].line,
                        entry.funcs[n].async)]
    ELSE <<>>

(***************************************************************************)
(* Inputs: the lines a target file is made of.                             *)
(***************************************************************************)
LinePool ==
    { <<"f", "u", "n", "c", "t", "i", "o", "n", " ", "f", "o", "r", "m", "a", "t", "D", "a", "t", "e", "(", "x", ")", " ", "{">>,
      <<"a", "s", "y", "n", "c", " ", "f", "u", "n", "c", "t", "i", "o", "n", " ", "f", "e", "t", "c", "h", "P", "l", "a", "y", "l", "i", "s", "t", "(", ")", " ", "{">>,
      <<"\t", "a", "s", "y", "n", "c", " ", " ", "f", "u", "n", "c", "t", "i", "o", "n", " ", "f", "o", "r", "m", "a", "t", "D", "a", "t", "e", " ", "(", ")", " ", "{", " ", "r", "e", "t", "u", "r", "n", " ", "1", ";", " ", "}">>,
      <<"f", "u", "n", "c", "t", "i", "o", "n", " ", "b", "u", "l", "k", "F", "o", "r", "m", "a", "t", "L", "i", "s", "t", "(", "a", ",", " ", "b", ")", "{">>,
      <<"f", "u", "n", "c", "t", "i", "o", "n", " ", "o", "n", "E", "v", "e", "n", "t", "(", "c", "b", " ", "=", " ", "f", "u", "n", "c", "t", "i", "o", "n", "(", ")", " ", "{", "}", ")", " ", "{">>,
      <<"f", "u", "n", "c", "t", "i", "o", "n", " ", "t", "o", "t", "a", "l", "(", "a", " ", "=", " ", "s", "u", "m", "(", "1", ")", ")", " ", "{">>,
      <<"f", "u", "n", "c", "t", "i", "o", "n", " ", "r", "e", "n", "d", "e", "r", "(", "c", "b", " ", "=">>,
      <<" ", " ", " ", " ", "n", "o", "o", "p", ")", " ", "{">>,
      <<" ", " ", "f", "u", "n", "c", "t", "i", "o", "n", " ", "i", "n", "n", "e", "r", "(", ")", " ", "{", "}", ")", " ", "{">>,
      <<"c", "o", "n", "s", "t", " ", "s", "o", "r", "t", "I", "t", "e", "m", "s", " ", "=", " ", "(", "x", ")", " ", "=", ">", " ", "{">>,
      <<"a", "s", "y", "n", "c", "f", "u", "n", "c", "t", "i", "o", "n", " ", "l", "o", "a", "d", "(", ")", " ", "{">>,
      <<>> }

\* every keyword of the chain
Keywords ==
    { <<"f", "o", "r", "m", "a", "t">>, <<"g", "e", "n", "e", "r", "a", "t", "e">>, <<"e", "s", "c", "a", "p", "e">>, <<"c", "o", "n", "v", "e", "r", "t">>, <<"s", "c", "h", "e", "d", "u", "l", "e">>,
      <<"s", "o", "r", "t">>, <<"r", "u", "l", "e">>, <<"f", "i", "e", "l", "d">>, <<"o", "p", "e", "r", "a", "t", "o", "r">>, <<"v", "a", "l", "u", "e">>, <<"i", "n", "p", "u", "t">>,
      <<"p", "l", "a", "y", "l", "i", "s", "t">>, <<"c", "r", "e", "a", "t", "e">>, <<"e", "d", "i", "t">>, <<"c", "l", "o", "n", "e">>, <<"d", "e", "l", "e", "t", "e">>,
      <<"r", "e", "f", "r", "e", "s", "h">>, <<"e", "n", "a", "b", "l", "e">>, <<"d", "i", "s", "a", "b", "l", "e">>, <<"f", "i", "l", "t", "e", "r">>, <<"s", "e", "a", "r", "c", "h">>,
      <<"a", "p", "p", "l", "y">>, <<"b", "u", "l", "k">>, <<"a", "p", "i">>, <<"l", "o", "a", "d">>, <<"g", "e", "t">>, <<"p", "o", "s", "t">>, <<"p", "u", "t">>,
      <<"f", "e", "t", "c", "h">>, <<"i", "n", "i", "t">>, <<"s", "e", "t", "u", "p">>, <<"e", "v", "e", "n", "t">> }

\* one keyword of each branch, to pair up
PairedKeywords ==
    { <<"f", "o", "r", "m", "a", "t">>, <<"s", "c", "h", "e", "d", "u", "l", "e">>, <<"s", "o", "r", "t">>, <<"i", "n", "p", "u", "t">>, <<"p", "l", "a", "y", "l", "i", "s", "t">>,
      <<"f", "i", "l", "t", "e", "r">>, <<"b", "u", "l", "k">>, <<"f", "e", "t", "c", "h">>, <<"i", "n", "i", "t">> }

Capitalized(s) == upper(SubSeq(s, 1, 1)) \o SubSeq(s, 2, Len(s))

\* camel-case identifiers holding one keyword, two keywords in either
\* order, a keyword hidden in a longer word, or none
NamePool ==
    {<<"o", "n">> \o Capitalized(x) : x \in Keywords}
        \cup {x \o Capitalized(y) : x \in PairedKeywords, y \in PairedKeywords}
        \cup { <<"b", "u", "l", "k", "F", "o", "r", "m", "a", "t", "L", "i", "s", "t">>, <<"f", "e", "t", "c", "h", "P", "l", "a", "y", "l", "i", "s", "t">>, <<"m", "a", "i", "n">>, <<"_", "x", "1">>,
               <<"c", "o", "m", "p", "u", "t", "e">>, <<"t", "a", "r", "g", "e", "t">>, <<"c", "r", "e", "d", "i", "t">>, <<"c", "a", "p", "i", "t", "a", "l">>,
               <<"F", "O", "R", "M", "A", "T", "_", "A", "L", "L">> }

\* the files of up to MaxLines pool lines
Files == UNION {[1..n -> LinePool] : n \in 1..MaxLines}

\* the files that declare one function of a pool name
NameFiles == {<<<<"f", "u", "n", "c", "t", "i", "o", "n", " ">> \o x \o <<"(", ")", " ", "{">>>> : x \in NamePool}

FileStatuses == {"ok", "missing", "unreadable", "undecodable"}

Arguments == { <<<<"s", "p", "l", "i", "t", "-", "c", "o", "n", "f", "i", "g", ".", "j", "s", ".", "p", "y">>>>,
               <<<<"s", "p", "l", "i", "t", "-", "c", "o", "n", "f", "i", "g", ".", "j", "s", ".", "p", "y">>, <<"o", "t", "h", "e", "r", ".", "j", "s">>>> }

(***************************************************************************)
(* State.                                                                  *)
(***************************************************************************)
VARIABLES
    argv,        \* sys.argv
    disk,        \* the contents of the target file, <<>> if it has none
    status,      \* whether open() and read() of the target file succeed
    pc,          \* position of the script
    filepath,    \* the path analyze_file is called with
    content,     \* f.read()
    lines,       \* content.split('\n')
    i,           \* index of the next line of the extraction loop
    functions,   \* the list of records
    categories,  \* the dict of lists, as its items in insertion order
    c,           \* index of the next record of the categorisation loop
    k,           \* index of the next item of the loop of print_analysis
    stdout,      \* what was printed
    stderr,      \* the traceback of the uncaught exception, if any
    exit         \* the exit status once the process has ended, else <<>>

vars == <<argv, disk, status, pc, filepath, content, lines, i, functions,
          categories, c, k, stdout, stderr, exit>>

Start ==
    /\ pc = "main"
    /\ filepath = <<>>
    /\ content = <<>>
    /\ lines = <<>>
    /\ i = 0
    /\ functions = <<>>
    /\ categories = <<>>
    /\ c = 0
    /\ k = 0
    /\ stdout = <<>>
    /\ stderr = <<>>
    /\ exit = <<>>

Init ==
    /\ argv \in Arguments
    /\ status \in FileStatuses
    /\ disk \in IF status = "ok" THEN {join(f, <<"\n">>) : f \in Files}
                ELSE {<<>>}
    /\ Start

InitNames ==
    /\ argv \in Arguments
    /\ status \in FileStatuses
    /\ disk \in IF status = "ok" THEN {join(f, <<"\n">>) : f \in NameFiles}
                ELSE {<<>>}
    /\ Start

(***************************************************************************)
(* Steps of the script.                                                    *)
(***************************************************************************)
\* __main__: the default path unless an argument overrides it
Main ==
    /\ pc = "main"
    /\ filepath' = IF Len(argv) > 1 THEN argv[2] ELSE <<"c", "o", "n", "f", "i", "g", ".", "j", "s">>
    /\ pc' = "open"
    /\ UNCHANGED <<argv, disk, status, content, lines, i, functions,
                   categories, c, k, stdout, stderr, exit>>

\* open and read succeed; the pattern and the empty list are set up
ReadFile ==
    /\ pc = "open"
    /\ status = "ok"
    /\ content' = disk
    /\ lines' = split(disk, "\n")
    /\ functions' = <<>>
    /\ i' = 1
    /\ pc' = "extract"
    /\ UNCHANGED <<argv, disk, status, filepath, categories, c, k, stdout,
                   stderr, exit>>

\* open or read raises and the exception is swallowed: the script goes on
\* with an empty content
ReadFailsQuietly ==
    /\ pc = "open"
    /\ status # "ok"
    /\ content' = <<>>
    /\ lines' = split(<<>>, "\n")
    /\ functions' = <<>>
    /\ i' = 1
    /\ pc' = "extract"
    /\ UNCHANGED <<argv, disk, status, filepath, categories, c, k, stdout,
                   stderr, exit>>

\* open or read raises; nothing catches the exception
ReadFails ==
    /\ pc = "open"
    /\ status # "ok"
    /\ stderr' = << CASE status = "missing" -> "FileNotFoundError"
                     [] status = "unreadable" -> "PermissionError"
                     [] OTHER -> "UnicodeDecodeError" >>
    /\ exit' = <<1>>
    /\ pc' = "error"
    /\ UNCHANGED <<argv, disk, status, filepath, content, lines, i, functions,
                   categories, c, k, stdout>>

ExtractLine ==
    /\ pc = "extract"
    /\ i <= Len(lines)
    /\ functions' = extract(functions, lines, i)
    /\ i' = i + 1
    /\ UNCHANGED <<argv, disk, status, pc, filepath, content, lines,
                   categories, c, k, stdout, stderr, exit>>

\* the loop over the lines ends; the dict is created
ExtractDone ==
    /\ pc = "extract"
    /\ i > Len(lines)
    /\ categories' = EmptyCategories
    /\ c' = 1
    /\ pc' = "categorize"
    /\ UNCHANGED <<argv, disk, status, filepath, content, lines, i, functions,
                   k, stdout, stderr, exit>>

CategorizeFunc ==
    /\ pc = "categorize"
    /\ c <= Len(functions)
    /\ categories' = categorize(categories, functions[c])
    /\ c' = c + 1
    /\ UNCHANGED <<argv, disk, status, pc, filepath, content, lines, i,
                   functions, k, stdout, stderr, exit>>

\* analyze_file returns; print_analysis prints the banner and the total
PrintBanner ==
    /\ pc = "categorize"
    /\ c > Len(functions)
    /\ stdout' = stdout \o banner(functions)
    /\ k' = 1
    /\ pc' = "print"
    /\ UNCHANGED <<argv, disk, status, filepath, content, lines, i, functions,
                   categories, c, stderr, exit>>

PrintCategory ==
    /\ pc = "print"
    /\ k <= Len(categories)
    /\ stdout' = stdout \o section(categories[k])
    /\ k' = k + 1
    /\ UNCHANGED <<argv, disk, status, pc, filepath, content, lines, i,
                   functions, categories, c, stderr, exit>>

\* the script falls off its end
Exit ==
    /\ pc = "print"
    /\ k > Len(categories)
    /\ exit' = <<0>>
    /\ pc' = "done"
    /\ UNCHANGED <<argv, disk, status, filepath, content, lines, i, functions,
                   categories, c, k, stdout, stderr>>

Next ==
    \/ Main
    \/ ReadFile
    \/ ReadFails
    \/ ExtractLine
    \/ ExtractDone
    \/ CategorizeFunc
    \/ PrintBanner
    \/ PrintCategory
    \/ Exit

Spec == Init /\ [][Next]_vars

SpecNames == InitNames /\ [][Next]_vars

(***************************************************************************)
(* The declaration shape, stated as the set of ways a text can be read as  *)
(*   whitespace, optional marker "async" and whitespace, "function",       *)
(*   whitespace, identifier, optional whitespace, "(", parameter text,     *)
(*   ")", optional whitespace, "{", anything.                              *)
(* A reading is the marker flag, the identifier and the parameter text.    *)
(* With strict, the parameter text holds no ")".                           *)
(***************************************************************************)
IsBlank(t, a, b) == \A n \in a..b : t[n] \in Whitespace

IsIdentifier(t, a, b) ==
    /\ a <= b
    /\ t[a] \in IdentStart
    /\ \A n \in (a + 1)..b : t[n] \in IdentChar

ReadingsOf(t, strict) ==
    LET len == Len(t)
        \* <<end of the part read so far, marker flag>>
        AfterLead == {<<a, FALSE>> : a \in {a \in 0..len : IsBlank(t, 1, a)}}
        AfterMarker ==
            AfterLead \cup
            UNION {{<<b, TRUE>> : b \in {b \in (w[1] + 6)..len :
                                            /\ LitAt(t, w[1] + 1, <<"a", "s", "y", "n", "c">>)
                                            /\ IsBlank(t, w[1] + 6, b)}} :
                   w \in AfterLead}
        AfterKeyword ==
            {<<w[1] + 8, w[2]>> : w \in {w \in AfterMarker :
                                            LitAt(t, w[1] + 1, <<"f", "u", "n", "c", "t", "i", "o", "n">>)}}
        AfterGap ==
            UNION {{<<b, w[2]>> : b \in {b \in (w[1] + 1)..len :
                                            IsBlank(t, w[1] + 1, b)}} :
                   w \in AfterKeyword}
        \* <<end, marker flag, first and last position of the identifier>>
        AfterIdent ==
            UNION {{<<b, w[2], w[1] + 1, b>> :
                        b \in {b \in (w[1] + 1)..len :
                                  IsIdentifier(t, w[1] + 1, b)}} :
                   w \in AfterGap}
        AfterOpen ==
            UNION {{<<b + 1, w[2], w[3], w[4]>> :
                        b \in {b \in w[1]..(len - 1) :
                                  /\ IsBlank(t, w[1] + 1, b)
                                  /\ t[b + 1] = "("}} :
                   w \in AfterIdent}
        \* <<end, marker flag, identifier, first and last of the parameters>>
        AfterClose ==
            UNION {{<<b + 1, w[2], w[3], w[4], w[1] + 1, b>> :
                        b \in {b \in w[1]..(len - 1) :
                                  /\ t[b + 1] = ")"
                                  /\ strict =>
                                        \A n \in (w[1] + 1)..b : t[n] # ")"}} :
                   w \in AfterOpen}
        AfterBrace ==
            {w \in AfterClose :
                \E b \in w[1]..(len - 1) :
                    IsBlank(t, w[1] + 1, b) /\ t[b + 1] = "{"}
    IN  {[async |-> w[2],
          name |-> SubSeq(t, w[3], w[4]),
          params |-> SubSeq(t, w[5], w[6])] : w \in AfterBrace}

\* the readings under the shape of the pattern
Readings(t) == ReadingsOf(t, TRUE)

\* the readings when the parameter text may hold any character
LooseReadings(t) == ReadingsOf(t, FALSE)

(***************************************************************************)
(* Vocabulary of the properties.                                           *)
(***************************************************************************)
\* the extraction loop has ended
Extracted == pc \in {"categorize", "print", "done"}

\* analyze_file has returned
Returned == (pc = "categorize" /\ c > Len(functions)) \/ pc \in {"print", "done"}

\* the places <<bucket, position>> of the ten lists
Slots ==
    UNION {{<<m, n>> : n \in DOMAIN categories[m].funcs} : m \in DOMAIN categories}

RecordIn(slot) == categories[slot[1]].funcs[slot[2]]

\* the positions of functions whose record is of line n
RecordsOfLine(n) == {x \in DOMAIN functions : functions[x].line = n}

Least(S) == CHOOSE a \in S : \A b \in S : a <= b

\* the ten labels in their fixed order, and as the headers spell them
Labels ==
    << <<"c", "o", "r", "e">>, <<"f", "o", "r", "m", "a", "t", "t", "e", "r", "s">>, <<"s", "c", "h", "e", "d", "u", "l", "e", "s">>, <<"s", "o", "r", "t", "s">>, <<"r", "u", "l", "e", "s">>,
       <<"p", "l", "a", "y", "l", "i", "s", "t", "s">>, <<"f", "i", "l", "t", "e", "r", "s">>, <<"b", "u", "l", "k", "_", "a", "c", "t", "i", "o", "n", "s">>, <<"a", "p", "i">>, <<"i", "n", "i", "t">> >>

HeaderTexts ==
    << <<"C", "O", "R", "E">>, <<"F", "O", "R", "M", "A", "T", "T", "E", "R", "S">>, <<"S", "C", "H", "E", "D", "U", "L", "E", "S">>, <<"S", "O", "R", "T", "S">>, <<"R", "U", "L", "E", "S">>,
       <<"P", "L", "A", "Y", "L", "I", "S", "T", "S">>, <<"F", "I", "L", "T", "E", "R", "S">>, <<"B", "U", "L", "K", "_", "A", "C", "T", "I", "O", "N", "S">>, <<"A", "P", "I">>, <<"I", "N", "I", "T">> >>

\* the nine rules of the classifier in priority order
Rules ==
    << [label |-> <<"f", "o", "r", "m", "a", "t", "t", "e", "r", "s">>,
        keys |-> {<<"f", "o", "r", "m", "a", "t">>, <<"g", "e", "n", "e", "r", "a", "t", "e">>, <<"e", "s", "c", "a", "p", "e">>, <<"c", "o", "n", "v", "e", "r", "t">>}],
       [label |-> <<"s", "c", "h", "e", "d", "u", "l", "e", "s">>, keys |-> {<<"s", "c", "h", "e", "d", "u", "l", "e">>}],
       [label |-> <<"s", "o", "r", "t", "s">>, keys |-> {<<"s", "o", "r", "t">>}],
       [label |-> <<"r", "u", "l", "e", "s">>,
        keys |-> {<<"r", "u", "l", "e">>, <<"f", "i", "e", "l", "d">>, <<"o", "p", "e", "r", "a", "t", "o", "r">>, <<"v", "a", "l", "u", "e">>, <<"i", "n", "p", "u", "t">>}],
       [label |-> <<"p", "l", "a", "y", "l", "i", "s", "t", "s">>,
        keys |-> {<<"p", "l", "a", "y", "l", "i", "s", "t">>, <<"c", "r", "e", "a", "t", "e">>, <<"e", "d", "i", "t">>, <<"c", "l", "o", "n", "e">>, <<"d", "e", "l", "e", "t", "e">>,
                  <<"r", "e", "f", "r", "e", "s", "h">>, <<"e", "n", "a", "b", "l", "e">>, <<"d", "i", "s", "a", "b", "l", "e">>}],
       [label |-> <<"f", "i", "l", "t", "e", "r", "s">>, keys |-> {<<"f", "i", "l", "t", "e", "r">>, <<"s", "e", "a", "r", "c", "h">>, <<"a", "p", "p", "l", "y">>}],
       [label |-> <<"b", "u", "l", "k", "_", "a", "c", "t", "i", "o", "n", "s">>, keys |-> {<<"b", "u", "l", "k">>}],
       [label |-> <<"a", "p", "i">>,
        keys |-> {<<"a", "p", "i">>, <<"l", "o", "a", "d">>, <<"g", "e", "t">>, <<"p", "o", "s", "t">>, <<"p", "u", "t">>, <<"f", "e", "t", "c", "h">>}],
       [label |-> <<"i", "n", "i", "t">>, keys |-> {<<"i", "n", "i", "t">>, <<"s", "e", "t", "u", "p">>, <<"e", "v", "e", "n", "t">>}] >>

\* the rules with a keyword contained in the lowercased name
Matching(name) ==
    {r \in DOMAIN Rules : \E x \in Rules[r].keys : Contains(lower(name), x)}

FirstMatch(name) ==
    IF Matching(name) = {} THEN <<"c", "o", "r", "e">> ELSE Rules[Least(Matching(name))].label

(***************************************************************************)
(* C1                                                                      *)
(***************************************************************************)
\* C1: once analyze_file has returned there are ten buckets, every record of
\* functions lies in exactly one place of them, every place holds a record
\* of functions, and the bucket sizes add up to len(functions).
C1_BucketsPartitionFunctions ==
    Returned =>
        /\ Len(categories) = 10
        /\ \A x \in DOMAIN functions :
               Cardinality({s \in Slots : RecordIn(s) = functions[x]}) = 1
        /\ \A s \in Slots : \E x \in DOMAIN functions : functions[x] = RecordIn(s)
        /\ Cardinality(Slots) = Len(functions)

\* two records were extracted and went to two different buckets
C1_Witness ==
    /\ pc = "done"
    /\ Len(functions) = 2
    /\ \E s, t \in Slots : s[1] # t[1]

(***************************************************************************)
(* C2                                                                      *)
(***************************************************************************)
\* C2: every record lies in the bucket labelled by the first rule, in
\* priority order, one of whose keywords is contained in the lowercased
\* name, and in core when no rule matches; bulkFormatList lies in
\* formatters and fetchPlaylist in playlists.
C2_FirstMatchingRuleWins ==
    /\ Returned => \A x \in DOMAIN functions :
                       \E s \in Slots : RecordIn(s) = functions[x]
    /\ \A s \in Slots :
        /\ categories[s[1]].key = FirstMatch(RecordIn(s).name)
        /\ RecordIn(s).name = <<"b", "u", "l", "k", "F", "o", "r", "m", "a", "t", "L", "i", "s", "t">>
               => categories[s[1]].key = <<"f", "o", "r", "m", "a", "t", "t", "e", "r", "s">>
        /\ RecordIn(s).name = <<"f", "e", "t", "c", "h", "P", "l", "a", "y", "l", "i", "s", "t">>
               => categories[s[1]].key = <<"p", "l", "a", "y", "l", "i", "s", "t", "s">>

\* a name with keywords of two rules was classified
C2_Witness ==
    /\ pc = "done"
    /\ \E s \in Slots :
        /\ Cardinality(Matching(RecordIn(s).name)) = 2
        /\ RecordIn(s).name = <<"f", "e", "t", "c", "h", "P", "l", "a", "y", "l", "i", "s", "t">>

(***************************************************************************)
(* C3                                                                      *)
(***************************************************************************)
\* C3: when the extraction loop has ended, the lines are the physical lines
\* of the file, a line has one record if it can be read as a declaration and
\* none otherwise, a record carries the identifier and the marker flag of
\* its line's reading and the 1-based index of that line, and the line
\* numbers of the records ascend strictly.
C3_OneRecordPerDeclarationLine ==
    Extracted =>
        /\ join(lines, <<"\n">>) = disk
        /\ \A n \in DOMAIN lines :
               Cardinality(RecordsOfLine(n)) =
                   IF Readings(lines[n]) # {} THEN 1 ELSE 0
        /\ \A x \in DOMAIN functions :
            /\ functions[x].line \in DOMAIN lines
            /\ \E r \in Readings(lines[functions[x].line]) :
                /\ functions[x].name = r.name
                /\ functions[x].async = r.async
        /\ \A x, y \in DOMAIN functions :
               x < y => functions[x].line < functions[y].line

\* a plain declaration on line 1 and a marked one on line 2 were extracted
C3_Witness ==
    /\ Extracted
    /\ Len(lines) = 2
    /\ Len(functions) = 2
    /\ ~functions[1].async /\ functions[1].line = 1
    /\ functions[2].async /\ functions[2].line = 2

(***************************************************************************)
(* C4                                                                      *)
(***************************************************************************)
Headers == {h \in DOMAIN stdout : stdout[h].kind = "header"}

\* the last entry of the section that the header at h opens
SectionEnd(h) ==
    LET later == {g \in Headers : g > h}
    IN  IF later = {} THEN Len(stdout) ELSE Least(later) - 1

OrderOf(text) == CHOOSE n \in DOMAIN HeaderTexts : HeaderTexts[n] = text

\* C4: whatever has been printed starts with the banner and the total line,
\* then holds only sections, each a header followed by as many function
\* lines as the header counts, at least one; the headers follow the fixed
\* order of the labels; at the end a label has a section exactly when its
\* bucket is not empty, and the header counts the bucket's records.
C4_ReportInFixedOrder ==
    /\ stdout # <<>> =>
        /\ Len(stdout) >= 4
        /\ stdout[1].kind = "rule" /\ stdout[2].kind = "title"
        /\ stdout[3].kind = "rule" /\ stdout[4].kind = "total"
        /\ stdout[4].n = Len(functions)
    /\ \A h \in 5..Len(stdout) : stdout[h].kind \in {"header", "func"}
    /\ Len(stdout) >= 5 => stdout[5].kind = "header"
    /\ \A h \in Headers :
        /\ stdout[h].text \in Range(HeaderTexts)
        /\ stdout[h].n = SectionEnd(h) - h
        /\ stdout[h].n > 0
    /\ \A g, h \in Headers :
           g < h => OrderOf(stdout[g].text) < OrderOf(stdout[h].text)
    /\ pc = "done" =>
           \A n \in DOMAIN Labels :
               \A m \in DOMAIN categories :
                   categories[m].key = Labels[n] =>
                       IF categories[m].funcs = <<>>
                       THEN \A h \in Headers : stdout[h].text # HeaderTexts[n]
                       ELSE \E h \in Headers :
                               /\ stdout[h].text = HeaderTexts[n]
                               /\ stdout[h].n = Len(categories[m].funcs)

\* a report with two sections, the later bucket filled first
C4_Witness ==
    /\ pc = "done"
    /\ Cardinality(Headers) = 2
    /\ \E g, h \in Headers :
        /\ g < h
        /\ \E x, y \in DOMAIN functions :
            /\ x < y
            /\ functions[y].name = stdout[g + 1].text
            /\ functions[x].name = stdout[h + 1].text

(***************************************************************************)
(* C5                                                                      *)
(***************************************************************************)
NonEmptyBuckets == {m \in DOMAIN categories : categories[m].funcs # <<>>}

\* C5: a run whose file cannot be opened or decoded ends in the error state
\* with a non-zero exit status and an exception on stderr, without having
\* printed anything, and takes no further step; no other run reaches the
\* error state, and at its end such a run has exit status 0 and has printed
\* the banner, the total line, a header for each non-empty bucket and a
\* line for each record.
C5_FailsBeforePrintingElseFullReport ==
    /\ status # "ok" => stdout = <<>> /\ pc \in {"main", "open", "error"}
    /\ pc = "error" =>
        /\ status # "ok"
        /\ exit # <<>> /\ exit[1] # 0
        /\ stderr # <<>>
        /\ ~ENABLED Next
    /\ status = "ok" => pc # "error" /\ stderr = <<>>
    /\ exit # <<>> => pc \in {"done", "error"}
    /\ pc = "done" =>
        /\ exit = <<0>>
        /\ Len(stdout) = 4 + Cardinality(NonEmptyBuckets) + Len(functions)
        /\ stdout[4].kind = "total"

\* the file is missing and the run has failed
C5_Witness ==
    /\ pc = "error"
    /\ status = "missing"
    /\ exit = <<1>>

(***************************************************************************)
(* C6                                                                      *)
(***************************************************************************)
HasParenthesis(t) == \E n \in DOMAIN t : t[n] \in {"(", ")"}

\* C6 as claimed: a line that can be read as a declaration whose parameter
\* text, between the parenthesis after the identifier and a closing
\* parenthesis before a brace, holds "(" or ")" has no record.
C6_NestedParenthesisNeverMatches ==
    Extracted =>
        \A n \in DOMAIN lines :
            (\E r \in LooseReadings(lines[n]) : HasParenthesis(r.params))
                => RecordsOfLine(n) = {}

\* C6 as amended: a line that can be read as a declaration only with a
\* parameter text that holds ")" has no record; every record's line has a
\* reading whose parameter text is free of ")", whether or not it holds "(".
C6_CloseParenthesisNeverMatches ==
    Extracted =>
        /\ \A n \in DOMAIN lines :
               (\A r \in LooseReadings(lines[n]) : Contains(r.params, <<")">>))
                   => RecordsOfLine(n) = {}
        /\ \A x \in DOMAIN functions :
               \E r \in LooseReadings(lines[functions[x].line]) :
                   /\ r.name = functions[x].name
                   /\ ~Contains(r.params, <<")">>)

\* a line with balanced nested parentheses went without a record and a line
\* with "(" in its parameter text got one
C6_Witness ==
    /\ Extracted
    /\ Len(lines) = 2
    /\ LooseReadings(lines[1]) # {}
    /\ \A r \in LooseReadings(lines[1]) : Contains(r.params, <<")">>)
    /\ RecordsOfLine(1) = {}
    /\ \E r \in LooseReadings(lines[2]) : Contains(r.params, <<"(">>)
    /\ RecordsOfLine(2) # {}

(***************************************************************************)
(* C7                                                                      *)
(***************************************************************************)
\* the function keyword of a declaration stands on the text
StartsDeclaration(t) ==
    \E a \in 0..Len(t) :
        /\ IsBlank(t, 1, a)
        /\ \/ LitAt(t, a + 1, <<"f", "u", "n", "c", "t", "i", "o", "n">>)
           \/ /\ LitAt(t, a + 1, <<"a", "s", "y", "n", "c">>)
              /\ \E b \in (a + 6)..Len(t) :
                     IsBlank(t, a + 6, b) /\ LitAt(t, b + 1, <<"f", "u", "n", "c", "t", "i", "o", "n">>)

\* lines n..m hold a declaration that starts on line n and is complete on
\* line m only
SplitDeclaration(n, m) ==
    /\ n \in DOMAIN lines /\ m \in DOMAIN lines /\ n < m
    /\ StartsDeclaration(lines[n])
    /\ Readings(join(SubSeq(lines, n, m), <<"\n">>)) # {}
    /\ Readings(join(SubSeq(lines, n, m - 1), <<"\n">>)) = {}

C8_NoDeclarationIsNormal ==
    /\ status = "ok" => pc # "error" /\ stderr = <<>>
    /\ (pc = "done" /\ \A n \in DOMAIN lines : Readings(lines[n]) = {}) =>
        /\ exit = <<0>>
        /\ functions = <<>>
        /\ Len(categories) = 10
        /\ \A m \in DOMAIN categories : categories[m].funcs = <<>>
        /\ Len(stdout) = 4
        /\ stdout[1].kind = "rule" /\ stdout[2].kind = "title"
        /\ stdout[3].kind = "rule"
        /\ stdout[4].kind = "total" /\ stdout[4].n = 0

\* the empty file was reported
C8_Witness ==
    /\ pc = "done"
    /\ status = "ok"
    /\ disk = <<>>
    /\ lines = << <<>> >>

(***************************************************************************)
(* C9                                                                      *)
(***************************************************************************)
\* C9: two records of the same name lie in the same bucket, whatever else
\* they hold and whenever they were classified.
C9_SameNameSameBucket ==
    \A s, t \in Slots :
        RecordIn(s).name = RecordIn(t).name => s[1] = t[1]

\* two records of one name that differ in line, marker and raw text
C9_Witness ==
    /\ pc = "done"
    /\ \E s, t \in Slots :
        /\ RecordIn(s).name = RecordIn(t).name
        /\ RecordIn(s).line # RecordIn(t).line
        /\ RecordIn(s).async # RecordIn(t).async
        /\ RecordIn(s).line_content # RecordIn(t).line_content

(***************************************************************************)
(* C10                                                                     *)
(***************************************************************************)
\* C10: the records of a bucket are records of functions in the order of
\* functions, with strictly ascending line numbers, and the function lines
\* of a printed section ascend strictly in line number.
C10_BucketsKeepFileOrder ==
    /\ \A m \in DOMAIN categories :
        \A a, b \in DOMAIN categories[m].funcs :
            a < b =>
                /\ categories[m].funcs[a].line < categories[m].funcs[b].line
                /\ \E x, y \in DOMAIN functions :
                    /\ x < y
                    /\ functions[x] = categories[m].funcs[a]
                    /\ functions[y] = categories[m].funcs[b]
    /\ \A h \in 1..(Len(stdout) - 1) :
           (stdout[h].kind = "func" /\ stdout[h + 1].kind = "func")
               => stdout[h].n < stdout[h + 1].n

\* a section with two function lines was printed
C10_Witness ==
    /\ pc = "done"
    /\ \E h \in Headers : stdout[h].n = 2

====
